---- MODULE Spec2Model ----
(***************************************************************************)
(* A KenKen puzzle solved as a constraint satisfaction problem:            *)
(*   csp_code/kenken_csp.py   builds the CSP of a board,                   *)
(*   csp_code/propagators.py  prop_BT, prop_FC, prop_GAC,                  *)
(*   csp_code/heuristics.py   ord_mrv, val_lcv.                            *)
(* cspbase (Variable, Constraint, CSP) and the backtracking driver are     *)
(* imported by these files; they are modelled from their documented        *)
(* contract.                                                               *)
(*                                                                         *)
(* A variable is identified by its cell code 10*row + col, a constraint by *)
(* its position in the container's constraint list.                        *)
(***************************************************************************)
EXTENDS Integers, Sequences, FiniteSets, TLC

VARIABLES
    kenken_grid,    \* the board: <<n>> followed by the cages
    propagator,     \* "BT", "FC" or "GAC": the propagator of this search
    var_ord,        \* "ord_mrv" or "any": how the driver picks the variable
    val_ord,        \* "val_lcv" or "cur_domain": how it orders the values
    vars,           \* csp.vars: the variables, in the container's order
    cons,           \* csp.cons: the constraints [scope, sat_tuples]
    curdom,         \* Variable.curdom: the values not pruned, per variable
    assignedValue,  \* Variable.assignedValue, None when unassigned
    pc,             \* where the search is
    stack,          \* the frames of bt_recurse: [var, value_order, i, prunings]
    newVar,         \* the propagator's argument, None on the initial call
    status,         \* the propagator's returned flag
    pruned,         \* the propagator's list of (variable, value) pairs
    constraints,    \* prop_GAC: the work queue
    constraint,     \* prop_GAC: the constraint popped last
    unasgn,         \* prop_GAC: constraint.get_unasgn_vars() being iterated
    var_i,          \* prop_GAC: how many of unasgn the loop has taken
    dom,            \* prop_GAC: var.cur_domain() being iterated
    val_i,          \* prop_GAC: how many of dom the loop has taken
    value_map,      \* val_lcv: the count computed for each value, last call
    before,         \* curdom as it was when the running propagator call began
    saved,          \* history: curdom and assignedValue as the initial call left
                    \* them, then as they were before each level's value was assigned
    solutions       \* the full assignments that satisfy every constraint of cons

vars_all == <<kenken_grid, propagator, var_ord, val_ord, vars, cons, curdom,
              assignedValue, pc, stack, newVar, status, pruned, constraints,
              constraint, unasgn, var_i, dom, val_i, value_map, before, saved,
              solutions>>

None == 0

inf == 1000000

(***************************************************************************)
(* Bounds of the boards explored.                                          *)
(***************************************************************************)
MaxTarget == 3

----------------------------------------------------------------------------
(* Sequences. *)

Range(s) == {s[i] : i \in 1..Len(s)}

Contains(s, x) == \E i \in 1..Len(s) : s[i] = x

RECURSIVE reduce(_, _, _)
\* functools.reduce(f, tup) for f of kind "-", "//", "*" and sum(tup) for "+"
reduce(kind, tup, k) ==
    IF k = 1 THEN tup[1]
    ELSE LET x == reduce(kind, tup, k - 1)
             y == tup[k]
         IN  CASE kind = "+"  -> x + y
               [] kind = "-"  -> x - y
               [] kind = "//" -> x \div y
               [] kind = "*"  -> x * y

\* itertools.product(range(1, n + 1), repeat=k)
product(n, k) == [1..k -> 1..n]

\* itertools.permutations(tup)
permutations(tup) ==
    {[i \in 1..Len(tup) |-> tup[p[i]]] : p \in Permutations(1..Len(tup))}

----------------------------------------------------------------------------
(* kenken_csp.py *)

\* variables[row][col], rows and columns counted from 1 as in the names
variables(n) == [row \in 1..n |-> [col \in 1..n |-> 10 * row + col]]

\* list(it.chain.from_iterable(variables))
flatten(n) == [k \in 1..(n * n) |-> variables(n)[((k - 1) \div n) + 1][((k - 1) % n) + 1]]

\* set(it.permutations(range(1, n + 1), 2))
bne_tuples(n) == {t \in product(n, 2) : t[1] # t[2]}

Constraint(scope, tuples) == [scope |-> scope, sat_tuples |-> tuples]

RECURSIVE bne_loop(_, _)
\* the three nested loops of binary_ne_grid, k counting (row, col, i)
bne_loop(n, k) ==
    IF k = n * n * n THEN <<>>
    ELSE LET row == (k \div (n * n)) + 1
             col == ((k \div n) % n) + 1
             i   == (k % n) + 1
             V   == variables(n)
         IN  (IF i = col THEN <<>>
              ELSE << Constraint(<<V[row][col], V[row][i]>>, bne_tuples(n)),
                      Constraint(<<V[col][row], V[i][row]>>, bne_tuples(n)) >>)
             \o bne_loop(n, k + 1)

binary_ne_grid(grid) == bne_loop(grid[1][1], 0)

\* set(it.permutations(range(1, n + 1)))
all_diff_tups(n) == permutations([x \in 1..n |-> x])

RECURSIVE nary_ad_loop(_, _)
\* the loop of nary_ad_grid: the i-th row, then the i-th column
nary_ad_loop(n, i) ==
    IF i > n THEN <<>>
    ELSE << Constraint(variables(n)[i], all_diff_tups(n)),
            Constraint([row \in 1..n |-> variables(n)[row][i]], all_diff_tups(n)) >>
         \o nary_ad_loop(n, i + 1)

nary_ad_grid(grid) == nary_ad_loop(grid[1][1], 1)

\* the cells of a cage with an operation: cage[:-2]
cage_cells(cage) == SubSeq(cage, 1, Len(cage) - 2)

\* variables[int(str(cell)[0]) - 1][int(str(cell)[1]) - 1]
cell_var(n, cell) == variables(n)[cell \div 10][cell % 10]

\* cage_tuples taking the product over len(cage) positions, not len(cage[:-2])
cage_tuples_long(n, cage) ==
    LET k      == Len(cage)
        target == cage[Len(cage) - 1]
        op     == cage[Len(cage)]
    IN  CASE op = 0 -> {tup \in product(n, k) : reduce("+", tup, k) = target}
          [] op = 1 -> UNION {permutations(tup) :
                              tup \in {t \in product(n, k) : reduce("-", t, k) = target}}
          [] op = 2 -> UNION {permutations(tup) :
                              tup \in {t \in product(n, k) : reduce("//", t, k) = target}}
          [] op = 3 -> {tup \in product(n, k) : reduce("*", tup, k) = target}
          [] OTHER  -> {}

\* the satisfying tuples of a cage with an operation
cage_tuples(n, cage) ==
    LET k      == Len(cage) - 2
        target == cage[Len(cage) - 1]
        op     == cage[Len(cage)]
    IN  CASE op = 0 -> {tup \in product(n, k) : reduce("+", tup, k) = target}
          [] op = 1 -> UNION {permutations(tup) :
                              tup \in {t \in product(n, k) : reduce("-", t, k) = target}}
          [] op = 2 -> UNION {permutations(tup) :
                              tup \in {t \in product(n, k) : reduce("//", t, k) = target}}
          [] op = 3 -> {tup \in product(n, k) : reduce("*", tup, k) = target}
          [] OTHER  -> {}

cage_constraint(n, cage) ==
    IF Len(cage) = 2
    THEN Constraint(<<cell_var(n, cage[1])>>, {<<cage[2]>>})
    ELSE Constraint([j \in 1..(Len(cage) - 2) |-> cell_var(n, cage_cells(cage)[j])],
                    cage_tuples(n, cage))

kenken_csp_model(grid) ==
    binary_ne_grid(grid) \o [j \in 1..(Len(grid) - 1) |-> cage_constraint(grid[1][1], grid[j + 1])]

----------------------------------------------------------------------------
(* cspbase: Variable, Constraint, CSP; cd is curdom, av is assignedValue *)

is_assigned(v, av) == av[v] # None

\* Variable.cur_domain(): the assigned value alone, or the unpruned values
\* in the order of the initial domain [1, ..., n]
cur_domain(v, cd, av) ==
    IF is_assigned(v, av) THEN <<av[v]>>
    ELSE SelectSeq([x \in 1..kenken_grid[1][1] |-> x], LAMBDA x : x \in cd[v])

cur_domain_size(v, cd, av) == Len(cur_domain(v, cd, av))

in_cur_domain(v, x, cd, av) == Contains(cur_domain(v, cd, av), x)

get_scope(c) == cons[c].scope

get_unasgn_vars(c, av) == SelectSeq(get_scope(c), LAMBDA v : ~is_assigned(v, av))

get_n_unasgn(c, av) == Len(get_unasgn_vars(c, av))

\* Constraint.check(vals)
check(c, vals) == vals \in cons[c].sat_tuples

\* Constraint.has_support(var, val): some satisfying tuple gives var the value val
\* and every other scope variable a value of its current domain
has_support(c, var, val, cd, av) ==
    \E t \in cons[c].sat_tuples :
        /\ Len(t) = Len(get_scope(c))
        /\ \A i \in 1..Len(t) :
              IF get_scope(c)[i] = var THEN t[i] = val
              ELSE in_cur_domain(get_scope(c)[i], t[i], cd, av)

get_all_cons == [c \in 1..Len(cons) |-> c]

get_cons_with_var(v) == SelectSeq(get_all_cons, LAMBDA c : Contains(get_scope(c), v))

get_all_unasgn_vars(av) == SelectSeq(vars, LAMBDA v : ~is_assigned(v, av))

prune_value(cd, v, x) == [cd EXCEPT ![v] = @ \ {x}]

unprune_value(cd, v, x) == [cd EXCEPT ![v] = @ \cup {x}]

assign(av, v, x) == [av EXCEPT ![v] = x]

unassign(av, v) == [av EXCEPT ![v] = None]

----------------------------------------------------------------------------
(* propagators.py; a call returns [status, pruned, curdom], curdom being the  *)
(* domains it leaves                                                          *)

\* vals of prop_BT: the assigned values of the scope, in scope order
assigned_vals(c, av) == [i \in 1..Len(get_scope(c)) |-> av[get_scope(c)[i]]]

prop_BT_unchecked(nv, cd, av) == [status |-> TRUE, pruned |-> <<>>, curdom |-> cd]

prop_BT(nv, cd, av) ==
    IF nv = None
    THEN [status |-> TRUE, pruned |-> <<>>, curdom |-> cd]
    ELSE [status |-> \A k \in 1..Len(get_cons_with_var(nv)) :
                        LET c == get_cons_with_var(nv)[k]
                        IN  get_n_unasgn(c, av) = 0 => check(c, assigned_vals(c, av)),
          pruned |-> <<>>,
          curdom |-> cd]

RECURSIVE FC_values_inverted(_, _, _, _, _, _)
\* FC_values pruning the values that have support: the test of line 94 without its not
FC_values_inverted(c, var, vals, k, st, av) ==
    IF k > Len(vals) THEN st
    ELSE LET val == vals[k]
             nxt == IF /\ has_support(c, var, val, st.curdom, av)
                       /\ ~Contains(st.pruned, <<var, val>>)
                    THEN [pruned |-> Append(st.pruned, <<var, val>>),
                          curdom |-> prune_value(st.curdom, var, val)]
                    ELSE st
         IN  FC_values_inverted(c, var, vals, k + 1, nxt, av)

RECURSIVE FC_values(_, _, _, _, _, _)
\* prop_FC: the loop over var.cur_domain() for one constraint, from the k-th value
FC_values(c, var, vals, k, st, av) ==
    IF k > Len(vals) THEN st
    ELSE LET val == vals[k]
             nxt == IF /\ ~has_support(c, var, val, st.curdom, av)
                       /\ ~Contains(st.pruned, <<var, val>>)
                    THEN [pruned |-> Append(st.pruned, <<var, val>>),
                          curdom |-> prune_value(st.curdom, var, val)]
                    ELSE st
         IN  FC_values(c, var, vals, k + 1, nxt, av)

RECURSIVE FC_constraints(_, _, _, _)
\* prop_FC: the loop over the constraints, from the k-th
FC_constraints(cs, k, st, av) ==
    IF k > Len(cs)
    THEN [status |-> TRUE, pruned |-> st.pruned, curdom |-> st.curdom]
    ELSE IF get_n_unasgn(cs[k], av) # 1
    THEN FC_constraints(cs, k + 1, st, av)
    ELSE LET var == get_unasgn_vars(cs[k], av)[1]
             nxt == FC_values(cs[k], var, cur_domain(var, st.curdom, av), 1, st, av)
         IN  IF cur_domain_size(var, nxt.curdom, av) = 0
             THEN [status |-> FALSE, pruned |-> nxt.pruned, curdom |-> nxt.curdom]
             ELSE FC_constraints(cs, k + 1, nxt, av)

\* prop_FC returning an empty list with False, as prop_BT does
prop_FC_unrecorded(nv, cd, av) ==
    LET r == FC_constraints(IF nv # None THEN get_cons_with_var(nv) ELSE get_all_cons,
                            1, [pruned |-> <<>>, curdom |-> cd], av)
    IN  [r EXCEPT !.pruned = IF r.status THEN r.pruned ELSE <<>>]

\* prop_FC doing nothing after an assignment
prop_FC_skips_newVar(nv, cd, av) ==
    FC_constraints(IF nv # None THEN <<>> ELSE get_all_cons,
                   1, [pruned |-> <<>>, curdom |-> cd], av)

\* prop_FC returning after the first constraint of its list
prop_FC_first(nv, cd, av) ==
    FC_constraints(SubSeq(IF nv # None THEN get_cons_with_var(nv) ELSE get_all_cons, 1, 1),
                   1, [pruned |-> <<>>, curdom |-> cd], av)

\* prop_FC doing nothing on the initial call, as prop_BT does
prop_FC_no_initial(nv, cd, av) ==
    FC_constraints(IF nv # None THEN get_cons_with_var(nv) ELSE <<>>,
                   1, [pruned |-> <<>>, curdom |-> cd], av)

prop_FC(nv, cd, av) ==
    FC_constraints(IF nv # None THEN get_cons_with_var(nv) ELSE get_all_cons,
                   1, [pruned |-> <<>>, curdom |-> cd], av)

RECURSIVE GAC_requeue(_, _, _)
\* prop_GAC: append to the queue q the constraints of cs, from the k-th, not in it
GAC_requeue(cs, k, q) ==
    IF k > Len(cs) THEN q
    ELSE IF Contains(q, cs[k]) THEN GAC_requeue(cs, k + 1, q)
    ELSE GAC_requeue(cs, k + 1, Append(q, cs[k]))

----------------------------------------------------------------------------
(* heuristics.py *)

RECURSIVE mrv_loop(_, _, _, _, _, _)
\* the loop of ord_mrv over variables, from the k-th
mrv_loop(vs, k, min_var, min_dom_size, cd, av) ==
    IF k > Len(vs) THEN min_var
    ELSE LET dom_size == cur_domain_size(vs[k], cd, av)
         IN  IF dom_size < min_dom_size
             THEN mrv_loop(vs, k + 1, vs[k], dom_size, cd, av)
             ELSE mrv_loop(vs, k + 1, min_var, min_dom_size, cd, av)

\* ord_mrv taking a later variable of the same size: <= for <
ord_mrv_last(cd, av) ==
    LET vs == get_all_unasgn_vars(av)
        m  == CHOOSE k \in 1..Len(vs) :
                 /\ \A j \in 1..Len(vs) :
                       cur_domain_size(vs[k], cd, av) <= cur_domain_size(vs[j], cd, av)
                 /\ \A j \in (k + 1)..Len(vs) :
                       cur_domain_size(vs[k], cd, av) < cur_domain_size(vs[j], cd, av)
    IN  vs[m]

ord_mrv(cd, av) ==
    LET vs == get_all_unasgn_vars(av)
    IN  mrv_loop(vs, 1, vs[1], inf, cd, av)

\* val_lcv: the count of one candidate value, var being assigned in av; the
\* inner loop draws _val from var.cur_domain()
lcv_pruned(var, others, cd, av) ==
    LET vals == cur_domain(var, cd, av)
    IN  Cardinality({p \in (1..Len(others)) \X (1..Len(vals)) :
            \E k \in 1..Len(get_cons_with_var(others[p[1]])) :
                ~has_support(get_cons_with_var(others[p[1]])[k], others[p[1]],
                             vals[p[2]], cd, av)})

RECURSIVE lcv_loop(_, _, _, _, _, _)
\* val_lcv: the loop over var.cur_domain(), from the k-th value;
\* st = [keys, value_map, assignedValue], keys the dict's insertion order
lcv_loop(var, vals, k, others, st, cd) ==
    IF k > Len(vals) THEN st
    ELSE LET value == vals[k]
             av1   == assign(st.assignedValue, var, value)
             n     == lcv_pruned(var, others, cd, av1)
         IN  lcv_loop(var, vals, k + 1, others,
                      [keys |-> IF Contains(st.keys, value) THEN st.keys
                                ELSE Append(st.keys, value),
                       value_map |-> [x \in DOMAIN st.value_map \cup {value} |->
                                         IF x = value THEN n ELSE st.value_map[x]],
                       assignedValue |-> unassign(av1, var)],
                      cd)

RECURSIVE sorted(_, _, _)
\* sorted(keys, key=key.get): stable, ascending; the first k keys in order
sorted(keys, key, k) ==
    IF k = 0 THEN <<>>
    ELSE LET s == sorted(keys, key, k - 1)
             x == keys[k]
             m == Cardinality({j \in 1..Len(s) : key[s[j]] <= key[x]})
         IN  SubSeq(s, 1, m) \o <<x>> \o SubSeq(s, m + 1, Len(s))

\* val_lcv sorting with reverse=True
val_lcv_reversed(var, cd, av) ==
    LET others == SelectSeq(get_all_unasgn_vars(av), LAMBDA v : v # var)
        st     == lcv_loop(var, cur_domain(var, cd, av), 1, others,
                           [keys |-> <<>>, value_map |-> <<>>, assignedValue |-> av], cd)
        up     == sorted(st.keys, st.value_map, Len(st.keys))
    IN  [order |-> [k \in 1..Len(up) |-> up[Len(up) + 1 - k]],
         value_map |-> st.value_map,
         assignedValue |-> st.assignedValue]

\* val_lcv without the var.unassign() of line 78
val_lcv_no_unassign(var, cd, av) ==
    LET others == SelectSeq(get_all_unasgn_vars(av), LAMBDA v : v # var)
        vals   == cur_domain(var, cd, av)
        st     == lcv_loop(var, vals, 1, others,
                           [keys |-> <<>>, value_map |-> <<>>, assignedValue |-> av], cd)
    IN  [order |-> sorted(st.keys, st.value_map, Len(st.keys)),
         value_map |-> st.value_map,
         assignedValue |-> IF vals = <<>> THEN av ELSE assign(av, var, vals[Len(vals)])]

\* val_lcv returns [order, value_map, assignedValue]: the list returned, the
\* counts it computed and the assignments it leaves
val_lcv(var, cd, av) ==
    LET others == SelectSeq(get_all_unasgn_vars(av), LAMBDA v : v # var)
        st     == lcv_loop(var, cur_domain(var, cd, av), 1, others,
                           [keys |-> <<>>, value_map |-> <<>>, assignedValue |-> av], cd)
    IN  [order |-> sorted(st.keys, st.value_map, Len(st.keys)),
         value_map |-> st.value_map,
         assignedValue |-> st.assignedValue]

----------------------------------------------------------------------------
\* The boards. A cage is <<cell, target>> or <<cell, ..., cell, target, op>>,
\* op being 0 for sum, 1 for difference, 2 for quotient, 3 for product.

\* cages of a 2 x 2 board
Cages ==
    {<<cell, target>> : cell \in {11, 22}, target \in 1..MaxTarget}
    \cup {<<11, 12, target, op>> : target \in 1..MaxTarget, op \in 0..3}
    \cup {<<11, 22, 2, 3>>, <<11, 12, 21, 4, 0>>, <<12, 21, 22, 5, 0>>}

\* 2 x 2 boards, searched with either way of ordering
SmallBoards ==
    { << <<2>> >> } \cup {<< <<2>>, cage >> : cage \in Cages}

\* 3 x 3 boards, searched with ord_mrv and val_lcv
LargeBoards ==
    { << <<3>> >>,
      << <<3>>, <<11, 12, 3, 0>>, <<13, 23, 3, 3>>, <<21, 31, 1, 1>>,
                <<22, 32, 3, 2>>, <<33, 2>> >>,
      << <<3>>, <<11, 12, 13, 9, 0>> >>,
      << <<3>>, <<11, 12, 21, 6, 3>>, <<22, 23, 1, 2>>, <<33, 1>> >>,
      << <<3>>, <<11, 2>>, <<12, 22, 1, 2>>, <<23, 33, 2, 1>> >> }

Boards == SmallBoards \cup LargeBoards

\* the full assignments of the variables of a board, each value from the
\* initial domain 1..n, that every constraint of kenken_csp_model accepts
AllSolutions(grid) ==
    LET n     == grid[1][1]
        model == kenken_csp_model(grid)
    IN  {s \in [Range(flatten(n)) -> 1..n] :
           \A c \in 1..Len(model) :
               [i \in 1..Len(model[c].scope) |-> s[model[c].scope[i]]]
                   \in model[c].sat_tuples}

----------------------------------------------------------------------------
(* The search: bt_search calls the propagator with no variable, then        *)
(* bt_recurse assigns, propagates and recurses, undoing on failure.          *)

Init ==
    /\ kenken_grid \in Boards
    /\ propagator \in {"BT", "FC", "GAC"}
    /\ var_ord \in IF kenken_grid \in SmallBoards THEN {"ord_mrv", "any"} ELSE {"ord_mrv"}
    /\ val_ord = IF var_ord = "ord_mrv" THEN "val_lcv" ELSE "cur_domain"
    /\ vars = flatten(kenken_grid[1][1])
    /\ cons = kenken_csp_model(kenken_grid)
    /\ curdom = [v \in Range(flatten(kenken_grid[1][1])) |-> 1..kenken_grid[1][1]]
    /\ assignedValue = [v \in Range(flatten(kenken_grid[1][1])) |-> None]
    /\ before = [v \in Range(flatten(kenken_grid[1][1])) |-> 1..kenken_grid[1][1]]
    /\ pc = "call"
    /\ stack = <<>>
    /\ newVar = None
    /\ status = TRUE
    /\ pruned = <<>>
    /\ constraints = <<>>
    /\ constraint = None
    /\ unasgn = <<>>
    /\ var_i = 0
    /\ dom = <<>>
    /\ val_i = 0
    /\ value_map = <<>>
    /\ saved = <<>>
    /\ solutions = AllSolutions(kenken_grid)

csp_fixed == <<kenken_grid, propagator, var_ord, val_ord, vars, cons, solutions>>

gac_locals == <<constraints, constraint, unasgn, var_i, dom, val_i>>

\* the driver calls prop_BT
call_BT ==
    /\ pc = "call" /\ propagator = "BT"
    /\ LET r == prop_BT(newVar, curdom, assignedValue)
       IN  /\ status' = r.status
           /\ pruned' = r.pruned
           /\ curdom' = r.curdom
    /\ pc' = "returned"
    /\ UNCHANGED <<csp_fixed, gac_locals, assignedValue, stack, newVar, value_map, before, saved>>

\* the driver calls prop_FC
call_FC ==
    /\ pc = "call" /\ propagator = "FC"
    /\ LET r == prop_FC(newVar, curdom, assignedValue)
       IN  /\ status' = r.status
           /\ pruned' = r.pruned
           /\ curdom' = r.curdom
    /\ pc' = "returned"
    /\ UNCHANGED <<csp_fixed, gac_locals, assignedValue, stack, newVar, value_map, before, saved>>

\* prop_GAC, lines 113-114: the queue and the pruned list
GAC_enter ==
    /\ pc = "call" /\ propagator = "GAC"
    /\ constraints' = IF newVar # None THEN get_cons_with_var(newVar) ELSE get_all_cons
    /\ pruned' = <<>>
    /\ pc' = "gac_while"
    /\ UNCHANGED <<csp_fixed, constraint, unasgn, var_i, dom, val_i, curdom,
                   assignedValue, stack, newVar, status, value_map, before, saved>>

\* lines 118-121: the queue is not empty; pop its first constraint
GAC_pop ==
    /\ pc = "gac_while" /\ constraints # <<>>
    /\ constraint' = Head(constraints)
    /\ constraints' = Tail(constraints)
    /\ unasgn' = get_unasgn_vars(Head(constraints), assignedValue)
    /\ var_i' = 0
    /\ pc' = "gac_for_var"
    /\ UNCHANGED <<csp_fixed, dom, val_i, curdom, assignedValue, stack, newVar,
                   status, pruned, value_map, before, saved>>

\* lines 121-122: the next unassigned variable of the constraint
GAC_next_var ==
    /\ pc = "gac_for_var" /\ var_i < Len(unasgn)
    /\ var_i' = var_i + 1
    /\ dom' = cur_domain(unasgn[var_i + 1], curdom, assignedValue)
    /\ val_i' = 0
    /\ pc' = "gac_for_val"
    /\ UNCHANGED <<csp_fixed, constraints, constraint, unasgn, curdom, assignedValue,
                   stack, newVar, status, pruned, value_map, before, saved>>

\* line 121: no variable of the constraint is left; back to the while test
GAC_vars_done ==
    /\ pc = "gac_for_var" /\ var_i = Len(unasgn)
    /\ pc' = "gac_while"
    /\ UNCHANGED <<csp_fixed, gac_locals, curdom, assignedValue, stack, newVar,
                   status, pruned, value_map, before, saved>>

\* the constraints of the variable queued again although the value has support
GAC_supported_requeues ==
    /\ pc = "gac_for_val" /\ val_i < Len(dom)
    /\ has_support(constraint, unasgn[var_i], dom[val_i + 1], curdom, assignedValue)
    /\ constraints' = GAC_requeue(get_cons_with_var(unasgn[var_i]), 1, constraints)
    /\ val_i' = val_i + 1
    /\ UNCHANGED <<csp_fixed, constraint, unasgn, var_i, dom, curdom,
                   assignedValue, pc, stack, newVar, status, pruned, value_map, before, saved>>

\* lines 122-124: the next value has support
GAC_supported ==
    /\ pc = "gac_for_val" /\ val_i < Len(dom)
    /\ has_support(constraint, unasgn[var_i], dom[val_i + 1], curdom, assignedValue)
    /\ val_i' = val_i + 1
    /\ UNCHANGED <<csp_fixed, constraints, constraint, unasgn, var_i, dom, curdom,
                   assignedValue, pc, stack, newVar, status, pruned, value_map, before, saved>>

GAC_prune_no_requeue ==
    /\ pc = "gac_for_val" /\ val_i < Len(dom)
    /\ ~has_support(constraint, unasgn[var_i], dom[val_i + 1], curdom, assignedValue)
    /\ IF Contains(pruned, <<unasgn[var_i], dom[val_i + 1]>>)
       THEN UNCHANGED <<curdom, pruned>>
       ELSE /\ curdom' = prune_value(curdom, unasgn[var_i], dom[val_i + 1])
            /\ pruned' = Append(pruned, <<unasgn[var_i], dom[val_i + 1]>>)
    /\ val_i' = val_i + 1
    /\ UNCHANGED <<csp_fixed, constraints, constraint, unasgn, var_i, dom, assignedValue,
                   pc, stack, newVar, status, value_map, before, saved>>

GAC_prune_requeue_all ==
    /\ pc = "gac_for_val" /\ val_i < Len(dom)
    /\ ~has_support(constraint, unasgn[var_i], dom[val_i + 1], curdom, assignedValue)
    /\ IF Contains(pruned, <<unasgn[var_i], dom[val_i + 1]>>)
       THEN UNCHANGED <<curdom, pruned>>
       ELSE /\ curdom' = prune_value(curdom, unasgn[var_i], dom[val_i + 1])
            /\ pruned' = Append(pruned, <<unasgn[var_i], dom[val_i + 1]>>)
    /\ constraints' = constraints \o get_cons_with_var(unasgn[var_i])
    /\ val_i' = val_i + 1
    /\ UNCHANGED <<csp_fixed, constraint, unasgn, var_i, dom, assignedValue,
                   pc, stack, newVar, status, value_map, before, saved>>

\* lines 124-134: the next value has no support: prune it unless this call
\* pruned it already, and queue the constraints of the variable not queued
GAC_prune ==
    /\ pc = "gac_for_val" /\ val_i < Len(dom)
    /\ ~has_support(constraint, unasgn[var_i], dom[val_i + 1], curdom, assignedValue)
    /\ IF Contains(pruned, <<unasgn[var_i], dom[val_i + 1]>>)
       THEN UNCHANGED <<curdom, pruned>>
       ELSE /\ curdom' = prune_value(curdom, unasgn[var_i], dom[val_i + 1])
            /\ pruned' = Append(pruned, <<unasgn[var_i], dom[val_i + 1]>>)
    /\ constraints' = GAC_requeue(get_cons_with_var(unasgn[var_i]), 1, constraints)
    /\ val_i' = val_i + 1
    /\ UNCHANGED <<csp_fixed, constraint, unasgn, var_i, dom, assignedValue,
                   pc, stack, newVar, status, value_map, before, saved>>

\* lines 137-138: the values are done and the domain is empty: return False
GAC_return_False ==
    /\ pc = "gac_for_val" /\ val_i = Len(dom)
    /\ cur_domain_size(unasgn[var_i], curdom, assignedValue) = 0
    /\ status' = FALSE
    /\ pc' = "returned"
    /\ UNCHANGED <<csp_fixed, gac_locals, curdom, assignedValue, stack, newVar,
                   pruned, value_map, before, saved>>

\* the test of line 137 inverted: return False although values are left
GAC_vals_done_fails ==
    /\ pc = "gac_for_val" /\ val_i = Len(dom)
    /\ cur_domain_size(unasgn[var_i], curdom, assignedValue) # 0
    /\ status' = FALSE
    /\ pc' = "returned"
    /\ UNCHANGED <<csp_fixed, gac_locals, curdom, assignedValue, stack, newVar,
                   pruned, value_map, before, saved>>

\* line 137: the values are done and the domain is not empty
GAC_vals_done ==
    /\ pc = "gac_for_val" /\ val_i = Len(dom)
    /\ cur_domain_size(unasgn[var_i], curdom, assignedValue) # 0
    /\ pc' = "gac_for_var"
    /\ UNCHANGED <<csp_fixed, gac_locals, curdom, assignedValue, stack, newVar,
                   status, pruned, value_map, before, saved>>

\* lines 118, 140: the queue is empty: return True
GAC_return_True ==
    /\ pc = "gac_while" /\ constraints = <<>>
    /\ status' = TRUE
    /\ pc' = "returned"
    /\ UNCHANGED <<csp_fixed, gac_locals, curdom, assignedValue, stack, newVar,
                   pruned, value_map, before, saved>>

RECURSIVE restoreValues(_, _, _)
\* the driver restores the pairs of prunings, from the k-th
restoreValues(prunings, k, cd) ==
    IF k > Len(prunings) THEN cd
    ELSE restoreValues(prunings, k + 1, unprune_value(cd, prunings[k][1], prunings[k][2]))

top == stack[Len(stack)]

\* bt_search: the initial propagator call has returned
bt_search_root ==
    /\ pc = "returned" /\ stack = <<>>
    /\ pc' = IF status THEN "recurse" ELSE "failure"
    /\ saved' = <<[curdom |-> curdom, assignedValue |-> assignedValue]>>
    /\ UNCHANGED <<csp_fixed, gac_locals, curdom, assignedValue, stack, newVar,
                   status, pruned, value_map, before>>

\* bt_recurse: every variable is assigned
bt_recurse_success ==
    /\ pc = "recurse"
    /\ get_all_unasgn_vars(assignedValue) = <<>>
    /\ pc' = "success"
    /\ UNCHANGED <<csp_fixed, gac_locals, curdom, assignedValue, stack, newVar,
                   status, pruned, value_map, before, saved>>

\* bt_recurse: choose a variable and the order of its values
bt_recurse_choose ==
    /\ pc = "recurse"
    /\ get_all_unasgn_vars(assignedValue) # <<>>
    /\ \E var \in Range(get_all_unasgn_vars(assignedValue)) :
          /\ var_ord = "ord_mrv" => var = ord_mrv(curdom, assignedValue)
          /\ LET lcv == val_lcv(var, curdom, assignedValue)
             IN  IF val_ord = "val_lcv"
                 THEN /\ stack' = Append(stack, [var |-> var, value_order |-> lcv.order,
                                                 i |-> 0, prunings |-> <<>>])
                      /\ value_map' = lcv.value_map
                      /\ assignedValue' = lcv.assignedValue
                 ELSE /\ stack' = Append(stack, [var |-> var,
                                                 value_order |-> cur_domain(var, curdom, assignedValue),
                                                 i |-> 0, prunings |-> <<>>])
                      /\ value_map' = <<>>
                      /\ assignedValue' = assignedValue
    /\ pc' = "loop"
    /\ UNCHANGED <<csp_fixed, gac_locals, curdom, newVar, status, pruned, before, saved>>

\* bt_recurse: assign the next value and call the propagator
bt_assign ==
    /\ pc = "loop" /\ top.i < Len(top.value_order)
    /\ assignedValue' = assign(assignedValue, top.var, top.value_order[top.i + 1])
    /\ stack' = [stack EXCEPT ![Len(stack)].i = @ + 1]
    /\ newVar' = top.var
    /\ before' = curdom
    /\ saved' = Append(SubSeq(saved, 1, Len(stack)),
                       [curdom |-> curdom, assignedValue |-> assignedValue])
    /\ value_map' = <<>>
    /\ pc' = "call"
    /\ UNCHANGED <<csp_fixed, gac_locals, curdom, status, pruned>>

\* bt_recurse: the propagator has returned; recurse, or undo and go on
bt_propagated ==
    /\ pc = "returned" /\ stack # <<>>
    /\ IF status
       THEN /\ stack' = [stack EXCEPT ![Len(stack)].prunings = pruned]
            /\ pc' = "recurse"
            /\ UNCHANGED <<curdom, assignedValue>>
       ELSE /\ curdom' = restoreValues(pruned, 1, curdom)
            /\ assignedValue' = unassign(assignedValue, top.var)
            /\ pc' = "loop"
            /\ UNCHANGED stack
    /\ UNCHANGED <<csp_fixed, gac_locals, newVar, status, pruned, value_map, before, saved>>

\* bt_recurse: no value is left; return False to the caller, which undoes its
\* own value, or to bt_search
bt_exhausted ==
    /\ pc = "loop" /\ top.i = Len(top.value_order)
    /\ IF Len(stack) = 1
       THEN /\ stack' = <<>>
            /\ pc' = "failure"
            /\ UNCHANGED <<curdom, assignedValue>>
       ELSE LET caller == stack[Len(stack) - 1]
            IN  /\ curdom' = restoreValues(caller.prunings, 1, curdom)
                /\ assignedValue' = unassign(assignedValue, caller.var)
                /\ stack' = [SubSeq(stack, 1, Len(stack) - 1)
                                EXCEPT ![Len(stack) - 1].prunings = <<>>]
                /\ pc' = "loop"
    /\ value_map' = <<>>
    /\ saved' = SubSeq(saved, 1, Len(stack))
    /\ UNCHANGED <<csp_fixed, gac_locals, newVar, status, pruned, before>>

Next ==
    \/ call_BT
    \/ call_FC
    \/ GAC_enter
    \/ GAC_pop
    \/ GAC_next_var
    \/ GAC_vars_done
    \/ GAC_supported
    \/ GAC_prune
    \/ GAC_return_False
    \/ GAC_vals_done
    \/ GAC_return_True
    \/ bt_search_root
    \/ bt_recurse_success
    \/ bt_recurse_choose
    \/ bt_assign
    \/ bt_propagated
    \/ bt_exhausted

Spec == Init /\ [][Next]_vars_all

----------------------------------------------------------------------------
(* Properties *)

Vars == Range(vars)

Unassigned == {v \in Vars : ~is_assigned(v, assignedValue)}

CurDomain(v) == Range(cur_domain(v, curdom, assignedValue))

ConsWith(v) == Range(get_cons_with_var(v))

Supported(c, v, x) == has_support(c, v, x, curdom, assignedValue)

Reverse(s) == [k \in 1..Len(s) |-> s[Len(s) + 1 - k]]

\* C1: after every prop_GAC call of the search that returns True, every value
\* of the current domain of every unassigned variable has support in every
\* constraint referencing the variable.
C1_ArcConsistentAfterGAC ==
    (pc = "returned" /\ propagator = "GAC" /\ status)
    => \A v \in Unassigned : \A x \in CurDomain(v) : \A c \in ConsWith(v) :
          Supported(c, v, x)

\* a prop_GAC call after an assignment has returned True, having pruned values
\* of several variables, and a variable with several values is left
C1_Witness ==
    /\ pc = "returned" /\ propagator = "GAC" /\ status /\ newVar # None
    /\ Cardinality({p[1] : p \in Range(pruned)}) >= 3
    /\ \E v \in Unassigned : Cardinality(CurDomain(v)) >= 2

\* C2: the list a propagator returns, with True or with False, holds each
\* pair the call removed from a current domain once and no other pair, and
\* restoring its pairs, first to last or last to first, gives the domains
\* the call began with.
C2_PrunedIsExact ==
    pc = "returned"
    => /\ \A i, j \in 1..Len(pruned) : pruned[i] = pruned[j] => i = j
       /\ \A v \in Vars : curdom[v] \subseteq before[v]
       /\ Range(pruned) = {p \in Vars \X (1..kenken_grid[1][1]) :
                              p[2] \in before[p[1]] \ curdom[p[1]]}
       /\ restoreValues(pruned, 1, curdom) = before
       /\ restoreValues(Reverse(pruned), 1, curdom) = before

\* a call has returned False with several pairs pruned
C2_Witness ==
    /\ pc = "returned" /\ ~status /\ propagator = "FC"
    /\ Len(pruned) >= 2

\* C3: when the search reports success every constraint is satisfied by the
\* assigned values of its scope.
C3_SuccessSatisfiesAll ==
    pc = "success"
    => \A c \in 1..Len(cons) :
          /\ get_n_unasgn(c, assignedValue) = 0
          /\ check(c, assigned_vals(c, assignedValue))

\* a search with prop_FC on a board with cages reports success
C3_Witness ==
    /\ pc = "success" /\ propagator = "FC"
    /\ Len(kenken_grid) > 2

\* the pairs prop_FC is to prune after newVar is assigned
FC_Expected ==
    {p \in Vars \X (1..kenken_grid[1][1]) :
        \E c \in ConsWith(newVar) :
            /\ get_unasgn_vars(c, assignedValue) = <<p[1]>>
            /\ p[2] \in before[p[1]]
            /\ ~Supported(c, p[1], p[2])}

\* C4: prop_FC called after an assignment prunes only values of a variable that
\* is the one unassigned variable of a constraint referencing newVar; when it
\* returns True it has pruned exactly the values of such variables without
\* support in such a constraint; on the 2 x 2 grid without cages, 11 = 1 prunes
\* 1 from 12 and from 21 and leaves 22 alone.
C4_FCLocality ==
    (pc = "returned" /\ propagator = "FC" /\ newVar # None)
    => /\ \A p \in Range(pruned) : \E c \in ConsWith(newVar) :
              get_unasgn_vars(c, assignedValue) = <<p[1]>>
       /\ status => Range(pruned) = FC_Expected
       /\ (kenken_grid = << <<2>> >> /\ Len(stack) = 1 /\ newVar = 11
             /\ assignedValue[11] = 1)
          => /\ status
             /\ Range(pruned) = {<<12, 1>>, <<21, 1>>}
             /\ curdom[22] = {1, 2}

\* the scenario: prop_FC has returned from the call that follows 11 = 1
C4_Witness ==
    /\ pc = "returned" /\ propagator = "FC"
    /\ kenken_grid = << <<2>> >> /\ Len(stack) = 1 /\ newVar = 11
    /\ assignedValue[11] = 1
    /\ pruned # <<>>

\* C5: no constraint is twice in the queue of prop_GAC.
C5_QueueHasNoDuplicates ==
    \A i, j \in 1..Len(constraints) : constraints[i] = constraints[j] => i = j

\* two values of one variable have just been pruned one after the other, so
\* the second found the constraints of the variable queued already
C5_Witness ==
    /\ pc = "gac_for_val" /\ val_i >= 2 /\ Len(pruned) >= 2
    /\ pruned[Len(pruned)] = <<unasgn[var_i], dom[val_i]>>
    /\ pruned[Len(pruned) - 1] = <<unasgn[var_i], dom[val_i - 1]>>
    /\ Len(constraints) >= 2

\* C6: prop_BT changes no domain and returns an empty list; it returns True
\* when called with no variable, and with newVar it returns False exactly when
\* a constraint referencing newVar with every scope variable assigned is not
\* satisfied by the assigned values.
C6_BTOnlyChecks ==
    (pc = "returned" /\ propagator = "BT")
    => /\ curdom = before
       /\ pruned = <<>>
       /\ newVar = None => status
       /\ newVar # None =>
             (~status <=> \E c \in 1..Len(cons) :
                 /\ newVar \in Range(cons[c].scope)
                 /\ \A v \in Range(cons[c].scope) : assignedValue[v] # None
                 /\ [k \in 1..Len(cons[c].scope) |-> assignedValue[cons[c].scope[k]]]
                       \notin cons[c].sat_tuples)

\* prop_BT has returned False on a cage of three cells
C6_Witness ==
    /\ pc = "returned" /\ propagator = "BT" /\ ~status
    /\ \E c \in ConsWith(newVar) :
          /\ Len(cons[c].scope) = 3
          /\ get_n_unasgn(c, assignedValue) = 0
          /\ ~check(c, assigned_vals(c, assignedValue))

\* the search has just chosen top.var and the order of its values
Chosen == pc = "loop" /\ top.i = 0

\* the candidate value x of var being assigned, the pairs (w, y), w another
\* unassigned variable and y in its current domain, without support in some
\* constraint referencing w
LCV_Unsupported(var, x) ==
    LET av1 == assign(assignedValue, var, x)
    IN  {p \in (Unassigned \ {var}) \X (1..kenken_grid[1][1]) :
            /\ p[2] \in curdom[p[1]]
            /\ \E c \in ConsWith(p[1]) : ~has_support(c, p[1], p[2], curdom, av1)}

\* C7: the count by which val_lcv ranks a value is the number of pairs
\* (w, y), w another unassigned variable and y in the current domain of w,
\* that some constraint referencing w leaves without support.
C7_LCVCountsPairs ==
    (Chosen /\ val_ord = "val_lcv")
    => \A x \in DOMAIN value_map :
          value_map[x] = Cardinality(LCV_Unsupported(top.var, x))

\* the position of x in the sequence s
Index(s, x) == CHOOSE k \in 1..Len(s) : s[k] = x

\* C8: val_lcv returns the values of the current domain of var, each once,
\* ascending by the count it computed, values of equal count in the order of
\* the current domain.
C8_LCVPermutationSorted ==
    (Chosen /\ val_ord = "val_lcv")
    => LET order == top.value_order
           d     == cur_domain(top.var, curdom, assignedValue)
       IN  /\ Len(order) = Len(d)
           /\ Range(order) = Range(d)
           /\ DOMAIN value_map = Range(d)
           /\ \A i, j \in 1..Len(order) : order[i] = order[j] => i = j
           /\ \A i, j \in 1..Len(order) :
                 i < j => \/ value_map[order[i]] < value_map[order[j]]
                          \/ /\ value_map[order[i]] = value_map[order[j]]
                             /\ Index(d, order[i]) < Index(d, order[j])

\* val_lcv has returned three values, not in the order of the domain, two of
\* them with the same count
C8_Witness ==
    /\ Chosen /\ val_ord = "val_lcv"
    /\ Len(top.value_order) >= 3
    /\ top.value_order # cur_domain(top.var, curdom, assignedValue)
    /\ \E x, y \in DOMAIN value_map : x # y /\ value_map[x] = value_map[y]

\* C9: ord_mrv returns an unassigned variable of the least current-domain size,
\* the first of them in the container's list of unassigned variables.
C9_MRVFirstMinimum ==
    (Chosen /\ var_ord = "ord_mrv")
    => LET us == get_all_unasgn_vars(assignedValue)
           k  == Index(us, top.var)
       IN  /\ top.var \in Unassigned
           /\ \A v \in Unassigned : Cardinality(curdom[top.var]) <= Cardinality(curdom[v])
           /\ \A j \in 1..(k - 1) : Cardinality(curdom[us[j]]) > Cardinality(curdom[top.var])

\* ord_mrv has returned a variable that is not the first unassigned one, and
\* a later variable has a domain of the same size
C9_Witness ==
    /\ Chosen /\ var_ord = "ord_mrv"
    /\ LET us == get_all_unasgn_vars(assignedValue)
           k  == Index(us, top.var)
       IN  /\ k > 1
           /\ \E j \in (k + 1)..Len(us) :
                 Cardinality(curdom[us[j]]) = Cardinality(curdom[top.var])

\* the constraints of one variable with one satisfying tuple
UnaryCages == {c \in 1..Len(cons) : Len(cons[c].scope) = 1 /\ Cardinality(cons[c].sat_tuples) = 1}

Target(c) == (CHOOSE t \in cons[c].sat_tuples : TRUE)[1]

\* C10: the initial call of prop_FC or prop_GAC, when it returns True, leaves
\* the variable of a unary constraint with the one tuple (target,) the domain
\* {target}; it returns False when target is not in the initial domain.
C10_UnaryCageCollapses ==
    (pc = "returned" /\ newVar = None /\ propagator \in {"FC", "GAC"})
    => \A c \in UnaryCages :
          /\ status => CurDomain(cons[c].scope[1]) = {Target(c)}
          /\ Target(c) \notin before[cons[c].scope[1]] => ~status

\* the initial call has returned True and the domain of the cage is {target}
C10_Witness ==
    /\ pc = "returned" /\ newVar = None /\ propagator \in {"FC", "GAC"}
    /\ status /\ pruned # <<>>
    /\ \E c \in UnaryCages : CurDomain(cons[c].scope[1]) = {Target(c)}

\* prop_GAC is running
InGAC == pc \in {"gac_while", "gac_for_var", "gac_for_val"}

\* what is left to do in a prop_GAC call, most significant first: the values
\* in the current domains, the constraints queued, the variables of the popped
\* constraint not yet taken, the loop the call is in, the values not yet taken
GAC_Measure ==
    << Cardinality({p \in Vars \X (1..kenken_grid[1][1]) : p[2] \in curdom[p[1]]}),
       Len(constraints),
       Len(unasgn) - var_i,
       CASE pc = "gac_for_val" -> 2 [] pc = "gac_for_var" -> 1 [] OTHER -> 0,
       Len(dom) - val_i >>

\* a is before b in the lexicographic order
LexLess(a, b) ==
    \E k \in 1..Len(a) : a[k] < b[k] /\ \A j \in 1..(k - 1) : a[j] = b[j]

\* C11: every prop_GAC call terminates: each of its steps can be followed by
\* another until it returns, each step makes what is left to do smaller in a
\* well-founded order, and a step adds a constraint to the queue only when it
\* removes a value from a current domain.
C11_GACTerminates ==
    /\ [](InGAC => ENABLED Next)
    /\ [](InGAC => \A k \in 1..5 : GAC_Measure[k] >= 0)
    /\ [][(InGAC /\ InGAC') => LexLess(GAC_Measure', GAC_Measure)]_vars_all
    /\ [][(InGAC /\ ~(Range(constraints') \subseteq Range(constraints)))
            => \E v \in Vars : curdom'[v] # curdom[v] /\ curdom'[v] \subseteq curdom[v]]_vars_all

\* an initial prop_GAC call that pruned, and so queued constraints again, has
\* returned True with its queue empty
C11_Witness ==
    /\ pc = "returned" /\ propagator = "GAC" /\ newVar = None
    /\ status /\ constraints = <<>>
    /\ Len(pruned) >= 2

\* every value of every domain the call began with had support in every
\* constraint referencing its variable, no variable being assigned
SupportedBefore ==
    \A v \in Vars : \A x \in before[v] : \A c \in ConsWith(v) :
        has_support(c, v, x, before, [w \in Vars |-> None])

\* C12: an initial prop_GAC call on a CSP in which every value has support in
\* every constraint referencing its variable returns True with an empty list
\* and changes no domain; the 2 x 2 grid of binary_ne_grid is such a CSP.
C12_InitialGACPrunesNothing ==
    (pc = "returned" /\ propagator = "GAC" /\ newVar = None)
    => /\ SupportedBefore => (status /\ pruned = <<>> /\ curdom = before)
       /\ kenken_grid = << <<2>> >> => SupportedBefore

\* the initial prop_GAC call has returned on the 2 x 2 grid without cages
C12_Witness ==
    /\ pc = "returned" /\ propagator = "GAC" /\ newVar = None
    /\ kenken_grid = << <<2>> >>
    /\ SupportedBefore
    /\ constraints = <<>>

\* C13: ord_mrv and val_lcv leave every assignment slot and every current
\* domain as they found them: the step of the search that calls them changes
\* neither, the values val_lcv assigned to var being unassigned again.
C13_HeuristicsReadOnly ==
    [][(pc = "recurse" /\ pc' = "loop")
         => (assignedValue' = assignedValue /\ curdom' = curdom)]_vars_all

\* val_lcv has ordered several values of an unassigned variable that ord_mrv
\* chose, and the variable is unassigned
C13_Witness ==
    /\ Chosen /\ val_ord = "val_lcv" /\ var_ord = "ord_mrv"
    /\ Len(top.value_order) >= 2
    /\ assignedValue[top.var] = None
    /\ \E x \in DOMAIN value_map : value_map[x] > 0

\* the satisfying tuples of c have the length of c's scope
ArityOK(c) == \A t \in c.sat_tuples : DOMAIN t = 1..Len(c.scope)

\* the components of the satisfying tuples of c are values in 1..n
RangeOK(c, n) == \A t \in c.sat_tuples : \A i \in DOMAIN t : t[i] \in 1..n

\* the constraint kenken_csp_model built for the j-th cage
CageConstraint(j) == cons[Len(binary_ne_grid(kenken_grid)) + j]

C15_UndoRestores ==
    /\ (pc = "loop" /\ top.i >= 1)
       => /\ Len(saved) = Len(stack) + 1
          /\ curdom = saved[Len(stack) + 1].curdom
          /\ assignedValue = saved[Len(stack) + 1].assignedValue
    /\ (pc = "failure" /\ saved # <<>>)
       => /\ \A v \in Vars : assignedValue[v] = None
          /\ curdom = saved[1].curdom

\* the search has failed after abandoning every value of its first variable,
\* with a propagator that pruned in its initial call
C15_Witness ==
    /\ pc = "failure" /\ saved # <<>> /\ newVar # None
    /\ propagator \in {"FC", "GAC"}
    /\ \E v \in Vars : curdom[v] # 1..kenken_grid[1][1]

\* the solutions that agree with the assignments av and take every value from
\* the domains cd
Consistent(cd, av) ==
    {s \in solutions : \A v \in Vars : s[v] \in cd[v] /\ (av[v] # None => s[v] = av[v])}

\* a propagator call is running
InPropagator == pc = "call" \/ InGAC

Terminated == pc \in {"success", "failure"}

\* the values frame d has not finished with: those not yet tried and the one
\* being tried
Remaining(d) ==
    Len(stack[d].value_order) - stack[d].i
        + (IF d < Len(stack) \/ pc # "loop" THEN 1 ELSE 0)

\* the variant of the search: whether it runs, then for each depth the values
\* left (more than any frame has where there is no frame), then the position
\* in bt_recurse, then the variant of prop_GAC
SearchMeasure ==
    << IF Terminated THEN 0 ELSE 1 >>
    \o [d \in 1..Len(vars) |->
           IF d <= Len(stack) THEN Remaining(d) ELSE kenken_grid[1][1] + 2]
    \o << CASE pc = "loop"     -> 4
            [] pc = "call"     -> 3
            [] InGAC           -> 2
            [] pc = "returned" -> 1
            [] OTHER           -> 0 >>
    \o GAC_Measure

\* some step can be taken: the guards of call_FC and of the two steps of
\* bt_recurse at its entry, whose results are total functions of the state, and
\* the enabling condition of Next for every other step
HasStep ==
    \/ pc = "call" /\ propagator = "FC"
    \/ /\ pc = "recurse"
       /\ \/ get_all_unasgn_vars(assignedValue) = <<>>
          \/ var_ord = "ord_mrv"
                => Contains(get_all_unasgn_vars(assignedValue), ord_mrv(curdom, assignedValue))
    \/ ENABLED Next

\* C16: a propagator step removes no solution that agrees with the assignments
\* and the current domains; a propagator returns failure only when no such
\* solution exists; the search reports failure only if the CSP has no
\* solution; and the search ends, every step lowering a well-founded measure
\* and every state that is not final having a step, so that with a solution
\* it ends in success.
C16_NoSolutionLost ==
    /\ [][InPropagator
            => Consistent(curdom', assignedValue') = Consistent(curdom, assignedValue)]_vars_all
    /\ []((pc = "returned" /\ ~status)
            => Consistent(curdom, assignedValue) = {} /\ Consistent(before, assignedValue) = {})
    /\ [](pc = "failure" => solutions = {})
    /\ [](pc = "success" => solutions # {})
    /\ [](~Terminated => HasStep)
    /\ [](\A k \in 1..Len(SearchMeasure) : SearchMeasure[k] >= 0)
    /\ [][LexLess(SearchMeasure', SearchMeasure)]_vars_all

\* the search with ord_mrv and val_lcv has reported success after a propagator
\* that prunes returned failure for a value and the driver abandoned it
C16_Witness ==
    /\ pc = "success" /\ solutions # {}
    /\ var_ord = "ord_mrv" /\ val_ord = "val_lcv"
    /\ propagator \in {"FC", "GAC"}
    /\ \E d \in 1..Len(stack) : stack[d].i >= 2

RECURSIVE ExactQuotient(_, _)
\* the first k values of tup divided left to right, or 0 when a division
\* leaves a remainder
ExactQuotient(tup, k) ==
    IF k = 1 THEN tup[1]
    ELSE LET x == ExactQuotient(tup, k - 1)
         IN  IF x # 0 /\ x % tup[k] = 0 THEN x \div tup[k] ELSE 0

\* C17: the satisfying tuples of a division cage are the tuples over 1..n of
\* which some ordering, divided left to right with every division exact,
\* yields the target.
C17_DivisionExact ==
    \A j \in 1..(Len(kenken_grid) - 1) :
        LET cage == kenken_grid[j + 1]
            k    == Len(cage) - 2
        IN  (Len(cage) > 2 /\ cage[Len(cage)] = 2)
            => CageConstraint(j).sat_tuples
                 = {t \in product(kenken_grid[1][1], k) :
                      \E p \in permutations(t) : ExactQuotient(p, k) = cage[Len(cage) - 1]}

====
